---- MODULE Spec2Model ----
(***************************************************************************)
(* The Lean REPL bridge of school-payment: rust-backend/src/lean_repl.rs   *)
(* (LeanRepl, its writer / reader / stderr threads and extract_json),      *)
(* rust-backend/src/handlers.rs (AppState and the handlers that lock it)   *)
(* and the start-up code of the two front-ends.                            *)
(*                                                                         *)
(* Text is modelled as a sequence of tokens.  A token is one character of  *)
(* interest to extract_json ("{", "}", a double quote "q", a backslash     *)
(* "b", a newline "nl", any other character "x") or an abbreviation of a   *)
(* JSON member without braces and backslashes: "ver" for "jsonrpc":"2.0",  *)
(* "id" for "id":<v>, "res" for "result":<scalar>, "err" for "error" with  *)
(* a JsonRpcError object, whose braces and quotes are balanced, "key" for  *)
(* a key and its colon.  The field n of an                                 *)
(* "id" token is history: the number of the request the process wrote the  *)
(* text for (0 when it answers no request); so is its field j: the text    *)
(* was written on the line of a ready message.  The code reads neither.    *)
(***************************************************************************)
EXTENDS Integers, Sequences, FiniteSets, TLC

\* Bounds of the model.
MaxGen == 2
MaxCalls == 2
MaxApiCalls == 3
MaxCuts == 2

Callers == {"a", "b"}
Gens == 1..MaxGen
None == "none"

\* Ids a caller may put in a request (JsonRpcRequest.id); the id of ping
\* is a time in milliseconds.
ReqIds == {0, 1}
PingId == 1

VARIABLES
    mainPc,       \* main(): "new", "settle" (inside start's sleep), "serving", "dropped"
    pc,           \* per caller: "idle", "lock", "settle", "push", "recv", "done"
    call,         \* per caller: the handler call it is making
    holder,       \* AppState.lean_repl: the caller holding the mutex, or None
    waiters,      \* callers suspended in lock().await, in arrival order
    process,      \* LeanRepl.process: 0 is None, g is Some(child of generation g)
    stdin_tx,     \* LeanRepl.stdin_tx: 0 is None
    response_rx,  \* LeanRepl.response_rx: 0 is None
    ngen,         \* processes spawned so far
    procAlive,    \* per generation: the child process runs
    writerAlive,  \* per generation: the stdin writer thread runs
    readerAlive,  \* per generation: the stdout reader thread runs
    diagAlive,    \* per generation: the stderr thread runs
    greeted,      \* per generation: the process has written its ready message
    stdin_chan,   \* per generation: the mpsc channel stdin_tx -> stdin_rx
    stdin_pipe,   \* per generation: requests written to the process, unanswered
    stdout,       \* per generation: text written by the process, not yet read
    buffer,       \* per generation: the reader thread's buffer
    resp_chan,    \* per generation: the mpsc channel response_tx -> response_rx
    ncalls        \* handler calls that have taken the mutex so far

callerVars == <<pc, call>>
lockVars == <<holder, waiters>>
replVars == <<process, stdin_tx, response_rx>>
genVars == <<ngen, procAlive, writerAlive, readerAlive, diagAlive, greeted>>
ioVars == <<stdin_chan, stdin_pipe, stdout, buffer, resp_chan>>
vars == <<mainPc, callerVars, lockVars, replVars, genVars, ioVars, ncalls>>

----
\* Text.

T(c) == [c |-> c, v |-> 0, n |-> 0, j |-> FALSE]
IdTok(v, n, j) == [c |-> "id", v |-> v, n |-> n, j |-> j]
NL == T("nl")
Composite == {"ver", "id", "res", "err", "key"}

\* The ready message the advisor writes once after it starts: id 0.
Handshake == <<T("{"), T("ver"), T("res"), IdTok(0, 0, FALSE), T("}")>>

\* What the process writes in answer to request r: a result with r's id.
ResponseText(r, j) == <<T("{"), T("ver"), IdTok(r.id, r.no, j), T("res"), T("}")>>

\* buffer.find('{') from position i: the index of the first "{", 0 when
\* there is none.
RECURSIVE FindBrace(_, _)
FindBrace(buf, i) ==
    IF i > Len(buf) THEN 0
    ELSE IF buf[i].c = "{" THEN i
    ELSE FindBrace(buf, i + 1)

FirstBrace(buf) == FindBrace(buf, 1)

\* The scan of extract_json from position i: the index at which depth
\* returns to 0, or 0 when the buffer ends first.  A pending escape skips
\* one character: of an abbreviated member that is its opening quote, so
\* the member's closing quote toggles in_string.
RECURSIVE ScanEnd(_, _, _, _, _)
ScanEnd(buf, i, depth, in_string, escape) ==
    IF i > Len(buf) THEN 0
    ELSE LET c == buf[i].c IN
         IF escape
         THEN ScanEnd(buf, i + 1, depth,
                      IF c \in Composite THEN ~in_string ELSE in_string, FALSE)
         ELSE IF c = "b" THEN ScanEnd(buf, i + 1, depth, in_string, TRUE)
         ELSE IF c = "q" THEN ScanEnd(buf, i + 1, depth, ~in_string, FALSE)
         ELSE IF in_string THEN ScanEnd(buf, i + 1, depth, in_string, FALSE)
         ELSE IF c = "{" THEN ScanEnd(buf, i + 1, depth + 1, in_string, FALSE)
         ELSE IF c = "}"
              THEN IF depth - 1 = 0 THEN i
                   ELSE ScanEnd(buf, i + 1, depth - 1, in_string, FALSE)
         ELSE ScanEnd(buf, i + 1, depth, in_string, FALSE)

\* serde_json::from_str::<Value> on a segment that starts with "{": whether
\* the text is JSON.  want: a key has been read and its value must follow.
RECURSIVE ValidFrom(_, _, _, _, _)
ValidFrom(seg, i, in_str, esc, want) ==
    IF i > Len(seg) THEN ~in_str /\ ~want
    ELSE LET c == seg[i].c IN
         IF in_str
         THEN IF esc THEN c \in {"q", "b"} /\ ValidFrom(seg, i + 1, TRUE, FALSE, FALSE)
              ELSE IF c = "b" THEN ValidFrom(seg, i + 1, TRUE, TRUE, FALSE)
              ELSE IF c = "q" THEN ValidFrom(seg, i + 1, FALSE, FALSE, FALSE)
              ELSE IF c \in {"x", "{", "}"} THEN ValidFrom(seg, i + 1, TRUE, FALSE, FALSE)
              ELSE FALSE
         ELSE IF c = "{" THEN (i = 1 \/ want) /\ ValidFrom(seg, i + 1, FALSE, FALSE, FALSE)
         ELSE IF c = "}" THEN ~want /\ ValidFrom(seg, i + 1, FALSE, FALSE, FALSE)
         ELSE IF c = "q" THEN want /\ ValidFrom(seg, i + 1, TRUE, FALSE, FALSE)
         ELSE IF c = "key" THEN ~want /\ ValidFrom(seg, i + 1, FALSE, FALSE, TRUE)
         ELSE IF c = "nl" THEN ValidFrom(seg, i + 1, FALSE, FALSE, want)
         ELSE IF c \in Composite THEN ~want /\ ValidFrom(seg, i + 1, FALSE, FALSE, FALSE)
         ELSE FALSE

IsJson(seg) == ValidFrom(seg, 1, FALSE, FALSE, FALSE)

\* The members of the top-level object of a JSON text, in order.
RECURSIVE TopFrom(_, _, _, _, _)
TopFrom(seg, i, depth, in_str, esc) ==
    IF i > Len(seg) THEN <<>>
    ELSE LET c == seg[i].c IN
         IF in_str
         THEN IF esc THEN TopFrom(seg, i + 1, depth, TRUE, FALSE)
              ELSE IF c = "b" THEN TopFrom(seg, i + 1, depth, TRUE, TRUE)
              ELSE IF c = "q" THEN TopFrom(seg, i + 1, depth, FALSE, FALSE)
              ELSE TopFrom(seg, i + 1, depth, TRUE, FALSE)
         ELSE IF c = "{" THEN TopFrom(seg, i + 1, depth + 1, FALSE, FALSE)
         ELSE IF c = "}" THEN TopFrom(seg, i + 1, depth - 1, FALSE, FALSE)
         ELSE IF c = "q" THEN TopFrom(seg, i + 1, depth, TRUE, FALSE)
         ELSE IF depth = 1 /\ c \in Composite \ {"key"}
              THEN <<seg[i]>> \o TopFrom(seg, i + 1, depth, FALSE, FALSE)
         ELSE TopFrom(seg, i + 1, depth, FALSE, FALSE)

TopMembers(seg) == TopFrom(seg, 1, 0, FALSE, FALSE)

\* Whether a sequence of members has one named name, and the last such.
Has(m, name) == \E i \in 1..Len(m) : m[i].c = name
Last(m, name) == m[CHOOSE i \in 1..Len(m) : m[i].c = name /\ \A j \in (i + 1)..Len(m) : m[j].c # name]

\* IsReady with the test for id 0 left out.
IsReadyNever(seg) == FALSE

\* IsReady that takes every object for a ready message.
IsReadyAlways(seg) == TRUE

\* parsed.get("id") == Some(&json!(0)): the object's id (its last "id"
\* member) is the number 0.
IsReady(seg) ==
    LET m == TopMembers(seg)
    IN  Has(m, "id") /\ Last(m, "id").v = 0

RECURSIVE extract_json(_)

\* extract_json that drops what precedes the opening brace of an object
\* still incomplete.
extract_jsonTrims(buf) ==
    LET start_idx == FirstBrace(buf)
        end_idx == IF start_idx = 0 THEN 0 ELSE ScanEnd(buf, start_idx, 0, FALSE, FALSE)
    IN  IF start_idx = 0 THEN [some |-> FALSE, json |-> <<>>, rest |-> buf]
        ELSE IF end_idx = 0
        THEN [some |-> FALSE, json |-> <<>>, rest |-> SubSeq(buf, start_idx, Len(buf))]
        ELSE LET json_str == SubSeq(buf, start_idx, end_idx)
                 rest == SubSeq(buf, end_idx + 1, Len(buf))
             IN  IF IsJson(json_str)
                 THEN IF IsReady(json_str)
                      THEN extract_json(rest)
                      ELSE [some |-> TRUE, json |-> json_str, rest |-> rest]
                 ELSE [some |-> FALSE, json |-> <<>>, rest |-> rest]

\* extract_json: [some, json, rest] -- the value returned and the buffer left.
extract_json(buf) ==
    LET start_idx == FirstBrace(buf)
        end_idx == IF start_idx = 0 THEN 0 ELSE ScanEnd(buf, start_idx, 0, FALSE, FALSE)
    IN  IF start_idx = 0 \/ end_idx = 0
        THEN [some |-> FALSE, json |-> <<>>, rest |-> buf]
        ELSE LET json_str == SubSeq(buf, start_idx, end_idx)
                 rest == SubSeq(buf, end_idx + 1, Len(buf))
             IN  IF IsJson(json_str)
                 THEN IF IsReady(json_str)
                      THEN extract_json(rest)
                      ELSE [some |-> TRUE, json |-> json_str, rest |-> rest]
                 ELSE [some |-> FALSE, json |-> <<>>, rest |-> rest]

\* The reader thread's loop "while let Some(json_str) = extract_json(&mut buffer)":
\* [out, rest] -- the texts extracted, in order, and the buffer left.
RECURSIVE ExtractAll(_)
ExtractAll(buf) ==
    LET r == extract_json(buf) IN
    IF r.some
    THEN LET more == ExtractAll(r.rest)
         IN  [out |-> <<r.json>> \o more.out, rest |-> more.rest]
    ELSE [out |-> <<>>, rest |-> r.rest]

Count(m, name) == Cardinality({i \in 1..Len(m) : m[i].c = name})

\* serde_json::from_str::<JsonRpcResponse> on a JSON text with top-level
\* members m: jsonrpc and id are required, result and error are optional,
\* a field given twice is an error, other members are ignored.
IsResponse(m) ==
    /\ Count(m, "ver") = 1 /\ Count(m, "id") = 1
    /\ Count(m, "res") <= 1 /\ Count(m, "err") <= 1

----
\* LeanRepl (lean_repl.rs).

Fields == [process |-> process, response_rx |-> response_rx, stdin_tx |-> stdin_tx]

SetFields(f) ==
    /\ process' = f.process
    /\ response_rx' = f.response_rx
    /\ stdin_tx' = f.stdin_tx

\* cleanup with stdin_tx left as it is.
cleanupKeepsTx == [process |-> 0, response_rx |-> 0, stdin_tx |-> stdin_tx]

\* cleanup(): the three fields after it.
cleanup == [process |-> 0, response_rx |-> 0, stdin_tx |-> 0]

\* Running of an is_running that never finds a child running.
RunningNever == FALSE

\* Running without the poll: a child handle is held.
RunningByHandle == process # 0

\* process.try_wait() is Ok(None): the child exists and has not exited.
Running == process # 0 /\ procAlive[process]

\* is_running(): the fields after it; an exited child is cleaned up, and
\* with no child nothing is touched.
AfterIsRunning == IF process # 0 /\ ~procAlive[process] THEN cleanup ELSE Fields

\* Killed of a stop that kills nothing.
KilledNot(pa) == pa

\* stop(): process.kill() and process.wait() on the child, if there is one.
Killed(pa) == IF process # 0 THEN [pa EXCEPT ![process] = FALSE] ELSE pa

\* The requests a process has read or could still read die with it.
KilledPipe(sp) == IF process # 0 THEN [sp EXCEPT ![process] = <<>>] ELSE sp

\* Dropping the Receiver held in response_rx frees what is queued in it,
\* and no one can receive what the reader thread of that channel still has
\* to read or to frame: the thread ends at its next send or at end of file.
RxDropped(f, ch) ==
    IF response_rx # 0 /\ f.response_rx # response_rx
    THEN [ch EXCEPT ![response_rx] = <<>>]
    ELSE ch

\* Dropping the Sender held in stdin_tx: the writer thread, whose child has
\* exited, ends at its next write or its next recv; what is queued is lost.
TxDropped(f, ch) ==
    IF stdin_tx # 0 /\ f.stdin_tx # stdin_tx
    THEN [ch EXCEPT ![stdin_tx] = <<>>]
    ELSE ch

\* The channels and pipes once the fields have become f.
DropChannels(f) ==
    /\ resp_chan' = RxDropped(f, resp_chan)
    /\ stdout' = RxDropped(f, stdout)
    /\ buffer' = RxDropped(f, buffer)
    /\ stdin_chan' = TxDropped(f, stdin_chan)

\* start() that goes on using a response channel it finds in response_rx:
\* the old reader thread's channel is kept, the new child's is not stored.
StartFromKeepsRx(f, pa, ok) ==
    /\ ok => ngen < MaxGen
    /\ stdin_chan' = TxDropped(f, stdin_chan)
    /\ UNCHANGED <<resp_chan, stdout, buffer>>
    /\ IF ok
       THEN LET g == ngen + 1 IN
            /\ ngen' = g
            /\ SetFields([process |-> g,
                          response_rx |-> IF response_rx # 0 THEN response_rx ELSE g,
                          stdin_tx |-> g])
            /\ procAlive' = [pa EXCEPT ![g] = TRUE]
            /\ writerAlive' = [writerAlive EXCEPT ![g] = TRUE]
            /\ readerAlive' = [readerAlive EXCEPT ![g] = TRUE]
            /\ diagAlive' = [diagAlive EXCEPT ![g] = TRUE]
       ELSE /\ SetFields(f)
            /\ procAlive' = pa
            /\ UNCHANGED <<ngen, writerAlive, readerAlive, diagAlive>>
    /\ UNCHANGED greeted

\* start() past its is_running test, from fields f and process states pa.
\* ok: Command::spawn succeeds; then the three threads are spawned and the
\* three fields set.  Otherwise StartFailed is returned before any of it.
StartFrom(f, pa, ok) ==
    /\ ok => ngen < MaxGen
    /\ DropChannels(f)
    /\ IF ok
       THEN LET g == ngen + 1 IN
            /\ ngen' = g
            /\ SetFields([process |-> g, response_rx |-> g, stdin_tx |-> g])
            /\ procAlive' = [pa EXCEPT ![g] = TRUE]
            /\ writerAlive' = [writerAlive EXCEPT ![g] = TRUE]
            /\ readerAlive' = [readerAlive EXCEPT ![g] = TRUE]
            /\ diagAlive' = [diagAlive EXCEPT ![g] = TRUE]
       ELSE /\ SetFields(f)
            /\ procAlive' = pa
            /\ UNCHANGED <<ngen, writerAlive, readerAlive, diagAlive>>
    /\ UNCHANGED greeted

\* start()'s "while rx.try_recv().is_ok() {}" after the 500 ms sleep.
Drained == IF response_rx # 0 THEN [resp_chan EXCEPT ![response_rx] = <<>>] ELSE resp_chan

----
\* main() of web-server and run() of src-tauri: LeanRepl::new, then start(),
\* whose error is only logged, then the shared state is created.

MainStart(ok) ==
    /\ mainPc = "new"
    /\ StartFrom(AfterIsRunning, procAlive, ok)
    /\ mainPc' = IF ok THEN "settle" ELSE "serving"
    /\ UNCHANGED <<callerVars, lockVars, stdin_pipe, ncalls>>

MainDrain ==
    /\ mainPc = "settle"
    /\ resp_chan' = Drained
    /\ mainPc' = "serving"
    /\ UNCHANGED <<callerVars, lockVars, replVars, genVars, stdin_chan, stdin_pipe,
                   stdout, buffer, ncalls>>

----
\* The handlers (handlers.rs), each under state.lean_repl.lock().await.

\* What a handler returned: Ok carries the Response's id (and, as history,
\* the token's n and j and the generation the text came from).
NoResult == [kind |-> "none", id |-> 0, n |-> 0, j |-> FALSE, gen |-> 0]
Outcome(kind) == [kind |-> kind, id |-> 0, n |-> 0, j |-> FALSE, gen |-> 0]

\* A call: its handler and request id, and what it returned (res).  The
\* rest is history: no, its rank among the calls that took the mutex; ran,
\* whether a child was running when it took the mutex, and g0, the number
\* of processes spawned until then; starts, the calls of Command::spawn it
\* made; pushed, whether its request was sent on stdin_tx; lost, whether,
\* when recv_timeout returned, the child had exited and no answer to the
\* request existed.
NoCall == [op |-> "none", id |-> 0, no |-> 0, ran |-> FALSE, g0 |-> 0, starts |-> 0,
           pushed |-> FALSE, lost |-> FALSE, res |-> NoResult]

InHandler == {"settle", "push", "recv", "done"}
Waiting == {c \in Callers : pc[c] = "lock"}

\* A front-end calls send_rpc (o = "send"), health_check or restart_repl.
Call(c, o, i) ==
    /\ mainPc = "serving"
    /\ pc[c] = "idle"
    /\ ncalls + Cardinality(Waiting) < MaxCalls
    /\ pc' = [pc EXCEPT ![c] = "lock"]
    /\ call' = [call EXCEPT ![c] = [NoCall EXCEPT !.op = o, !.id = IF o = "send" THEN i ELSE 0]]
    /\ waiters' = Append(waiters, c)
    /\ UNCHANGED <<mainPc, holder, replVars, genVars, ioVars, ncalls>>

\* ping: send_rpc with a request built here.
Ping(c) == Call(c, "send", PingId)

\* CanLock of a mutex that excludes no one.
CanLockAlways == TRUE

\* The mutex can be taken.
CanLock == holder = None

\* lock().await returns to c: the mutex is free and c waited longest.
Enter(c, o) ==
    /\ pc[c] = "lock" /\ call[c].op = o
    /\ waiters # <<>> /\ Head(waiters) = c
    /\ CanLock
    /\ holder' = c
    /\ waiters' = Tail(waiters)
    /\ ncalls' = ncalls + 1

Entered(c) ==
    [call[c] EXCEPT !.no = ncalls + 1,
                    !.ran = (process # 0 /\ procAlive[process]),
                    !.g0 = ngen]

\* The handler has its value res; its guard is not yet dropped.
Finish(c, k, res) ==
    /\ pc' = [pc EXCEPT ![c] = "done"]
    /\ call' = [call EXCEPT ![c] = [k EXCEPT !.res = res]]

Goto(c, k, p) ==
    /\ pc' = [pc EXCEPT ![c] = p]
    /\ call' = [call EXCEPT ![c] = k]

\* The handler returns: the guard is dropped.
Release(c) ==
    /\ pc[c] = "done"
    /\ pc' = [pc EXCEPT ![c] = "idle"]
    /\ call' = [call EXCEPT ![c] = NoCall]
    /\ holder' = None
    /\ UNCHANGED <<mainPc, waiters, replVars, genVars, ioVars, ncalls>>

\* send_request, process running: is_running() is true and start is skipped.
SendRunning(c) ==
    /\ Enter(c, "send")
    /\ Running
    /\ Goto(c, Entered(c), "push")
    /\ UNCHANGED <<mainPc, replVars, genVars, ioVars>>

\* send_request, process not running: start(), whose error is returned.
SendStart(c, ok) ==
    /\ Enter(c, "send")
    /\ ~Running
    /\ StartFrom(AfterIsRunning, procAlive, ok)
    /\ UNCHANGED <<mainPc, stdin_pipe>>
    /\ LET k == [Entered(c) EXCEPT !.starts = 1] IN
       IF ok THEN Goto(c, k, "settle") ELSE Finish(c, k, Outcome("StartFailed"))

\* restart(): stop(), then start().
Restart(c, ok) ==
    /\ Enter(c, "restart")
    /\ StartFrom(cleanup, Killed(procAlive), ok)
    /\ stdin_pipe' = KilledPipe(stdin_pipe)
    /\ UNCHANGED mainPc
    /\ LET k == [Entered(c) EXCEPT !.starts = 1] IN
       IF ok THEN Goto(c, k, "settle") ELSE Finish(c, k, Outcome("StartFailed"))

\* The end of start() inside a handler: the sleep is over, the channel is
\* drained; start and restart return Ok, send_request goes on.
Drain(c) ==
    /\ pc[c] = "settle"
    /\ resp_chan' = Drained
    /\ UNCHANGED <<mainPc, lockVars, replVars, genVars, stdin_chan, stdin_pipe, stdout,
                   buffer, ncalls>>
    /\ IF call[c].op = "send"
       THEN Goto(c, call[c], "push")
       ELSE Finish(c, call[c], Outcome("Ok"))

\* send_request: the request is serialized and sent on stdin_tx; the send
\* fails when the writer thread, which owns the receiver, has exited.
Push(c) ==
    /\ pc[c] = "push"
    /\ UNCHANGED <<mainPc, lockVars, replVars, genVars, stdin_pipe, stdout, buffer,
                   resp_chan, ncalls>>
    /\ IF stdin_tx = 0 \/ response_rx = 0
       THEN /\ Finish(c, call[c], Outcome("NotRunning"))
            /\ UNCHANGED stdin_chan
       ELSE IF ~writerAlive[stdin_tx]
       THEN /\ Finish(c, call[c], Outcome("SendFailed"))
            /\ UNCHANGED stdin_chan
       ELSE /\ stdin_chan' = [stdin_chan EXCEPT
                                 ![stdin_tx] = Append(@, [no |-> call[c].no, id |-> call[c].id])]
            /\ Goto(c, [call[c] EXCEPT !.pushed = TRUE], "recv")

\* The stdout reader is blocked in its read: its process runs and has no
\* complete line for it.  The 30 s of recv_timeout are long against a
\* thread's step: the bound elapses only while the reader waits like this.
HasNewline(s) == \E i \in 1..Len(s) : s[i].c = "nl"
LineReady(g) == HasNewline(stdout[g]) \/ (~procAlive[g] /\ stdout[g] # <<>>)
ReaderBlocked(g) == readerAlive[g] /\ procAlive[g] /\ ~LineReady(g)

\* RecvOutcome with RecvTimeoutError::Disconnected taken for a timeout.
RecvOutcomeNoDisconnect(g) ==
    IF resp_chan[g] # <<>> THEN "message"
    ELSE IF ~readerAlive[g] \/ (procAlive[g] /\ ~HasNewline(stdout[g])) THEN "timeout"
    ELSE "waiting"

\* RecvOutcome of a recv() without a bound: an empty channel whose sender
\* lives is waited on for ever.
RecvOutcomeNoTimeout(g) ==
    IF resp_chan[g] # <<>> THEN "message"
    ELSE IF ~readerAlive[g] THEN "disconnected"
    ELSE "waiting"

\* What response_rx.recv_timeout(30 s) returns on the channel of generation g.
RecvOutcome(g) ==
    IF resp_chan[g] # <<>> THEN "message"
    ELSE IF ~readerAlive[g] THEN "disconnected"
    ELSE IF ReaderBlocked(g) THEN "timeout"
    ELSE "waiting"

\* The Response parsed from a received text, or InvalidJson.
Parsed(msg, g) ==
    LET m == TopMembers(msg) IN
    IF IsResponse(m)
    THEN [kind |-> "Ok", id |-> Last(m, "id").v, n |-> Last(m, "id").n,
          j |-> Last(m, "id").j, gen |-> g]
    ELSE Outcome("InvalidJson")

\* Text written in answer to request n is in a text, in a queue of texts.
Answers(text, n) == \E i \in 1..Len(text) : text[i].c = "id" /\ text[i].n = n
AnswerQueued(q, n) == \E i \in 1..Len(q) : Answers(q[i], n)

\* The child of c's channel has exited and no answer to c's request is
\* written, buffered or framed.
Lost(c) ==
    LET g == response_rx
        n == call[c].no
    IN  /\ ~procAlive[g]
        /\ ~Answers(stdout[g], n) /\ ~Answers(buffer[g], n) /\ ~AnswerQueued(resp_chan[g], n)

Received(c) == [call[c] EXCEPT !.lost = Lost(c)]

RecvMessage(c) ==
    /\ pc[c] = "recv"
    /\ RecvOutcome(response_rx) = "message"
    /\ resp_chan' = [resp_chan EXCEPT ![response_rx] = Tail(@)]
    /\ Finish(c, Received(c), Parsed(Head(resp_chan[response_rx]), response_rx))
    /\ UNCHANGED <<mainPc, lockVars, replVars, genVars, stdin_chan, stdin_pipe, stdout,
                   buffer, ncalls>>

RecvDisconnected(c) ==
    /\ pc[c] = "recv"
    /\ RecvOutcome(response_rx) = "disconnected"
    /\ Finish(c, Received(c), Outcome("ReceiveFailed"))
    /\ UNCHANGED <<mainPc, lockVars, replVars, genVars, ioVars, ncalls>>

RecvTimeout(c) ==
    /\ pc[c] = "recv"
    /\ RecvOutcome(response_rx) = "timeout"
    /\ Finish(c, Received(c), Outcome("Timeout"))
    /\ UNCHANGED <<mainPc, lockVars, replVars, genVars, ioVars, ncalls>>

\* health_check: is_running(), which cleans up after an exited child.
Health(c) ==
    /\ Enter(c, "health")
    /\ SetFields(AfterIsRunning)
    /\ DropChannels(AfterIsRunning)
    /\ Finish(c, Entered(c), Outcome(IF Running THEN "running" ELSE "stopped"))
    /\ UNCHANGED <<mainPc, genVars, stdin_pipe>>

----
\* The shared state is dropped when the server has shut down and no handler
\* holds a clone of its Arc: Drop for LeanRepl calls stop().
Teardown ==
    /\ mainPc = "serving"
    /\ \A c \in Callers : pc[c] = "idle"
    /\ mainPc' = "dropped"
    /\ SetFields(cleanup)
    /\ DropChannels(cleanup)
    /\ procAlive' = Killed(procAlive)
    /\ stdin_pipe' = KilledPipe(stdin_pipe)
    /\ UNCHANGED <<callerVars, lockVars, ngen, writerAlive, readerAlive, diagAlive,
                   greeted, ncalls>>

----
\* The child process: it writes its ready message once, on a line of its
\* own or joined to the line of what it writes next, answers the requests
\* it has read in order, and may exit at any time.

\* The last line of s is not ended: a ready message written without newline.
OpenLine(s) == s # <<>> /\ s[Len(s)].c # "nl"

Emit(g, text) == IF readerAlive[g] THEN [stdout EXCEPT ![g] = @ \o text] ELSE stdout

ProcGreet(g, nl) ==
    /\ procAlive[g] /\ ~greeted[g]
    /\ greeted' = [greeted EXCEPT ![g] = TRUE]
    /\ stdout' = Emit(g, Handshake \o (IF nl THEN <<NL>> ELSE <<>>))
    /\ UNCHANGED <<mainPc, callerVars, lockVars, replVars, ngen, procAlive, writerAlive,
                   readerAlive, diagAlive, stdin_chan, stdin_pipe, buffer, resp_chan,
                   ncalls>>

ProcAnswer(g) ==
    /\ procAlive[g] /\ stdin_pipe[g] # <<>>
    /\ stdin_pipe' = [stdin_pipe EXCEPT ![g] = Tail(@)]
    /\ stdout' = Emit(g, ResponseText(Head(stdin_pipe[g]), OpenLine(stdout[g])) \o <<NL>>)
    /\ UNCHANGED <<mainPc, callerVars, lockVars, replVars, genVars, stdin_chan, buffer,
                   resp_chan, ncalls>>

ProcExit(g) ==
    /\ procAlive[g]
    /\ procAlive' = [procAlive EXCEPT ![g] = FALSE]
    /\ stdin_pipe' = [stdin_pipe EXCEPT ![g] = <<>>]
    /\ UNCHANGED <<mainPc, callerVars, lockVars, replVars, ngen, writerAlive, readerAlive,
                   diagAlive, greeted, stdin_chan, stdout, buffer, resp_chan, ncalls>>

----
\* The three threads of a generation (start, lean_repl.rs:109-160).

\* Writer: "while let Ok(msg) = stdin_rx.recv()": write_all and flush, which
\* fail once the child has exited; then the thread ends and drops stdin_rx.
WriterWrite(g) ==
    /\ writerAlive[g] /\ stdin_chan[g] # <<>>
    /\ IF procAlive[g]
       THEN /\ stdin_pipe' = [stdin_pipe EXCEPT ![g] = Append(@, Head(stdin_chan[g]))]
            /\ stdin_chan' = [stdin_chan EXCEPT ![g] = Tail(@)]
            /\ UNCHANGED writerAlive
       ELSE /\ writerAlive' = [writerAlive EXCEPT ![g] = FALSE]
            /\ stdin_chan' = [stdin_chan EXCEPT ![g] = <<>>]
            /\ UNCHANGED stdin_pipe
    /\ UNCHANGED <<mainPc, callerVars, lockVars, replVars, ngen, procAlive, readerAlive,
                   diagAlive, greeted, stdout, buffer, resp_chan, ncalls>>

\* Writer: recv() fails once stdin_tx is dropped and the channel is empty.
WriterExit(g) ==
    /\ writerAlive[g] /\ stdin_chan[g] = <<>> /\ stdin_tx # g
    /\ writerAlive' = [writerAlive EXCEPT ![g] = FALSE]
    /\ UNCHANGED <<mainPc, callerVars, lockVars, replVars, ngen, procAlive, readerAlive,
                   diagAlive, greeted, ioVars, ncalls>>

FirstNewline(s) == CHOOSE i \in 1..Len(s) : s[i].c = "nl" /\ \A j \in 1..(i - 1) : s[j].c # "nl"

\* reader.lines(): the next line without its newline, and what is left.
NextLine(s) == IF HasNewline(s) THEN SubSeq(s, 1, FirstNewline(s) - 1) ELSE s
AfterLine(s) == IF HasNewline(s) THEN SubSeq(s, FirstNewline(s) + 1, Len(s)) ELSE <<>>

\* Reader: one line is appended to the buffer with a newline, then every
\* object extract_json yields is sent; a failed send (response_rx dropped)
\* ends the thread.
ReaderLine(g) ==
    /\ readerAlive[g] /\ LineReady(g)
    /\ \E r \in {ExtractAll(buffer[g] \o NextLine(stdout[g]) \o <<NL>>)} :
       IF r.out # <<>> /\ response_rx # g
       THEN /\ readerAlive' = [readerAlive EXCEPT ![g] = FALSE]
            /\ stdout' = [stdout EXCEPT ![g] = <<>>]
            /\ buffer' = [buffer EXCEPT ![g] = <<>>]
            /\ UNCHANGED resp_chan
       ELSE /\ resp_chan' = [resp_chan EXCEPT ![g] = @ \o r.out]
            /\ buffer' = [buffer EXCEPT ![g] = r.rest]
            /\ stdout' = [stdout EXCEPT ![g] = AfterLine(@)]
            /\ UNCHANGED readerAlive
    /\ UNCHANGED <<mainPc, callerVars, lockVars, replVars, ngen, procAlive, writerAlive,
                   diagAlive, greeted, stdin_chan, stdin_pipe, ncalls>>

\* Reader: lines() ends when the child's stdout is closed and read out.
ReaderEof(g) ==
    /\ readerAlive[g] /\ ~procAlive[g] /\ stdout[g] = <<>>
    /\ readerAlive' = [readerAlive EXCEPT ![g] = FALSE]
    /\ buffer' = [buffer EXCEPT ![g] = <<>>]
    /\ UNCHANGED <<mainPc, callerVars, lockVars, replVars, ngen, procAlive, writerAlive,
                   diagAlive, greeted, stdin_chan, stdin_pipe, stdout, resp_chan, ncalls>>

\* Stderr thread: its lines() ends when the child's stderr is closed.
DiagEof(g) ==
    /\ diagAlive[g] /\ ~procAlive[g]
    /\ diagAlive' = [diagAlive EXCEPT ![g] = FALSE]
    /\ UNCHANGED <<mainPc, callerVars, lockVars, replVars, ngen, procAlive, writerAlive,
                   readerAlive, greeted, ioVars, ncalls>>

----
Init ==
    /\ mainPc = "new"
    /\ pc = [c \in Callers |-> "idle"]
    /\ call = [c \in Callers |-> NoCall]
    /\ holder = None
    /\ waiters = <<>>
    /\ process = 0 /\ stdin_tx = 0 /\ response_rx = 0
    /\ ngen = 0
    /\ procAlive = [g \in Gens |-> FALSE]
    /\ writerAlive = [g \in Gens |-> FALSE]
    /\ readerAlive = [g \in Gens |-> FALSE]
    /\ diagAlive = [g \in Gens |-> FALSE]
    /\ greeted = [g \in Gens |-> FALSE]
    /\ stdin_chan = [g \in Gens |-> <<>>]
    /\ stdin_pipe = [g \in Gens |-> <<>>]
    /\ stdout = [g \in Gens |-> <<>>]
    /\ buffer = [g \in Gens |-> <<>>]
    /\ resp_chan = [g \in Gens |-> <<>>]
    /\ ncalls = 0

Next ==
    \/ \E ok \in BOOLEAN : MainStart(ok)
    \/ MainDrain
    \/ \E c \in Callers, o \in {"send", "health", "restart"}, i \in ReqIds : Call(c, o, i)
    \/ \E c \in Callers : Ping(c)
    \/ \E c \in Callers : SendRunning(c)
    \/ \E c \in Callers, ok \in BOOLEAN : SendStart(c, ok)
    \/ \E c \in Callers, ok \in BOOLEAN : Restart(c, ok)
    \/ \E c \in Callers : Drain(c)
    \/ \E c \in Callers : Push(c)
    \/ \E c \in Callers : RecvMessage(c)
    \/ \E c \in Callers : RecvDisconnected(c)
    \/ \E c \in Callers : RecvTimeout(c)
    \/ \E c \in Callers : Health(c)
    \/ \E c \in Callers : Release(c)
    \/ Teardown
    \/ \E g \in Gens, nl \in BOOLEAN : ProcGreet(g, nl)
    \/ \E g \in Gens : ProcAnswer(g)
    \/ \E g \in Gens : ProcExit(g)
    \/ \E g \in Gens : WriterWrite(g)
    \/ \E g \in Gens : WriterExit(g)
    \/ \E g \in Gens : ReaderLine(g)
    \/ \E g \in Gens : ReaderEof(g)
    \/ \E g \in Gens : DiagEof(g)

Spec == Init /\ [][Next]_vars

\* The threads are scheduled: a thread whose recv() or whose read has
\* failed or reached end of file goes on and returns.
ThreadsRun ==
    \A g \in Gens :
        WF_vars(WriterExit(g)) /\ WF_vars(ReaderEof(g)) /\ WF_vars(DiagEof(g))

FairSpec == Spec /\ ThreadsRun

----
\* A step of the program itself: of main's start, of a handler past its
\* call, or of a thread.  The child's steps and the front-end's calls are
\* not among them.
Progress ==
    \/ \E ok \in BOOLEAN : MainStart(ok)
    \/ MainDrain
    \/ \E c \in Callers : SendRunning(c)
    \/ \E c \in Callers, ok \in BOOLEAN : SendStart(c, ok)
    \/ \E c \in Callers, ok \in BOOLEAN : Restart(c, ok)
    \/ \E c \in Callers : Drain(c)
    \/ \E c \in Callers : Push(c)
    \/ \E c \in Callers : RecvMessage(c)
    \/ \E c \in Callers : RecvDisconnected(c)
    \/ \E c \in Callers : RecvTimeout(c)
    \/ \E c \in Callers : Health(c)
    \/ \E c \in Callers : Release(c)
    \/ \E g \in Gens : WriterWrite(g)
    \/ \E g \in Gens : WriterExit(g)
    \/ \E g \in Gens : ReaderLine(g)
    \/ \E g \in Gens : ReaderEof(g)
    \/ \E g \in Gens : DiagEof(g)

\* Progress is enabled: main is in start; the mutex is free and a caller
\* waits for it; a handler is at a step that does not wait, or its
\* recv_timeout can return; a writer thread has a message or a closed
\* channel; a reader thread has a line or an end of file; a stderr thread
\* has an end of file.
CanProgress ==
    \/ mainPc \in {"new", "settle"}
    \/ waiters # <<>> /\ CanLock
    \/ \E c \in Callers : pc[c] \in {"settle", "push", "done"}
    \/ \E c \in Callers : pc[c] = "recv" /\ RecvOutcome(response_rx) # "waiting"
    \/ \E g \in Gens : writerAlive[g] /\ (stdin_chan[g] # <<>> \/ stdin_tx # g)
    \/ \E g \in Gens : readerAlive[g] /\ (LineReady(g) \/ (~procAlive[g] /\ stdout[g] = <<>>))
    \/ \E g \in Gens : diagAlive[g] /\ ~procAlive[g]

\* The runtime and the operating system schedule: while a task or a thread
\* of the program can take a step, one is taken.  This is weak fairness of
\* Progress, WF_vars(Progress), with ENABLED <<Progress>>_vars written out
\* as the state predicate CanProgress.
Scheduled == <>[]CanProgress => []<><<Progress>>_vars

LiveSpec == Spec /\ Scheduled

----
\* The public methods of LeanRepl called directly.  start and stop are pub
\* fn that no handler calls on a bridge in service; here one owner of a
\* LeanRepl just made by LeanRepl::new calls start, stop, restart,
\* is_running and send_request in any order, one call at a time (&mut self).

Owner == "a"
ApiOps == {"start", "stop", "restart", "health", "send"}

ApiCall(o, i) ==
    /\ pc[Owner] = "idle"
    /\ ncalls < MaxApiCalls
    /\ pc' = [pc EXCEPT ![Owner] = "lock"]
    /\ call' = [call EXCEPT ![Owner] = [NoCall EXCEPT !.op = o, !.id = IF o = "send" THEN i ELSE 0]]
    /\ waiters' = Append(waiters, Owner)
    /\ UNCHANGED <<mainPc, holder, replVars, genVars, ioVars, ncalls>>

\* stop(): the child, if any, is killed and waited for; then cleanup().
Stop(c) ==
    /\ Enter(c, "stop")
    /\ SetFields(cleanup)
    /\ DropChannels(cleanup)
    /\ procAlive' = Killed(procAlive)
    /\ stdin_pipe' = KilledPipe(stdin_pipe)
    /\ Finish(c, Entered(c), Outcome("Ok"))
    /\ UNCHANGED <<mainPc, ngen, writerAlive, readerAlive, diagAlive, greeted>>

\* How a start() that is past its is_running test ends: "ok"; "spawn",
\* Command::spawn fails; "stdin", "stdout", "stderr", the spawn succeeds and
\* process.stdin.take(), process.stdout.take(), process.stderr.take() is None.
Hows == {"ok", "spawn", "stdin", "stdout", "stderr"}

\* start() whose spawn succeeds and one of whose take() calls returns None.
\* Without stdin or stdout StartFailed is returned by "?": the Child is
\* dropped, which does not kill it, the fields stay as is_running left
\* them, and the writer thread, spawned before stdout is taken, loses its
\* sender.  Without stderr no stderr thread is spawned and start goes on.
StartCapture(f, pa, how) ==
    /\ ngen < MaxGen
    /\ LET g == ngen + 1
           new == [process |-> g, response_rx |-> g, stdin_tx |-> g]
       IN  /\ ngen' = g
           /\ procAlive' = [pa EXCEPT ![g] = TRUE]
           /\ writerAlive' = [writerAlive EXCEPT ![g] = (how # "stdin")]
           /\ readerAlive' = [readerAlive EXCEPT ![g] = (how = "stderr")]
           /\ IF how = "stderr"
              THEN SetFields(new) /\ DropChannels(new)
              ELSE SetFields(f) /\ DropChannels(f)
    /\ UNCHANGED <<diagAlive, greeted>>

\* start(), process running: is_running() is true and Ok is returned.
StartRunning(c) ==
    /\ Enter(c, "start")
    /\ Running
    /\ Finish(c, Entered(c), Outcome("Ok"))
    /\ UNCHANGED <<mainPc, replVars, genVars, ioVars>>

\* start(), process not running.
StartSpawn(c, how) ==
    /\ Enter(c, "start")
    /\ ~Running
    /\ IF how \in {"ok", "spawn"}
       THEN StartFrom(AfterIsRunning, procAlive, how = "ok")
       ELSE StartCapture(AfterIsRunning, procAlive, how)
    /\ UNCHANGED <<mainPc, stdin_pipe>>
    /\ LET k == [Entered(c) EXCEPT !.starts = 1] IN
       IF how \in {"ok", "stderr"}
       THEN Goto(c, k, "settle")
       ELSE Finish(c, k, Outcome("StartFailed"))

InitApi ==
    /\ mainPc = "serving"
    /\ pc = [c \in Callers |-> "idle"]
    /\ call = [c \in Callers |-> NoCall]
    /\ holder = None
    /\ waiters = <<>>
    /\ process = 0 /\ stdin_tx = 0 /\ response_rx = 0
    /\ ngen = 0
    /\ procAlive = [g \in Gens |-> FALSE]
    /\ writerAlive = [g \in Gens |-> FALSE]
    /\ readerAlive = [g \in Gens |-> FALSE]
    /\ diagAlive = [g \in Gens |-> FALSE]
    /\ greeted = [g \in Gens |-> FALSE]
    /\ stdin_chan = [g \in Gens |-> <<>>]
    /\ stdin_pipe = [g \in Gens |-> <<>>]
    /\ stdout = [g \in Gens |-> <<>>]
    /\ buffer = [g \in Gens |-> <<>>]
    /\ resp_chan = [g \in Gens |-> <<>>]
    /\ ncalls = 0

NextApi ==
    \/ \E o \in ApiOps, i \in ReqIds : ApiCall(o, i)
    \/ Stop(Owner)
    \/ StartRunning(Owner)
    \/ \E how \in Hows : StartSpawn(Owner, how)
    \/ SendRunning(Owner)
    \/ \E ok \in BOOLEAN : SendStart(Owner, ok)
    \/ \E ok \in BOOLEAN : Restart(Owner, ok)
    \/ Drain(Owner)
    \/ Push(Owner)
    \/ RecvMessage(Owner)
    \/ RecvDisconnected(Owner)
    \/ RecvTimeout(Owner)
    \/ Health(Owner)
    \/ Release(Owner)
    \/ \E g \in Gens, nl \in BOOLEAN : ProcGreet(g, nl)
    \/ \E g \in Gens : ProcAnswer(g)
    \/ \E g \in Gens : ProcExit(g)
    \/ \E g \in Gens : WriterWrite(g)
    \/ \E g \in Gens : WriterExit(g)
    \/ \E g \in Gens : ReaderLine(g)
    \/ \E g \in Gens : ReaderEof(g)
    \/ \E g \in Gens : DiagEof(g)

SpecApi == InitApi /\ [][NextApi]_vars

----
\* Framing and parsing of what a child writes.  The child is a program of
\* its own and can write any text: here a send_request waits for the
\* answer to its request, and the child has written an object, preceded
\* and followed by other characters and broken into lines in every way.

RespId(v) == IdTok(v, 1, FALSE)

\* Objects a child may write: Responses with a result or an error, with
\* id 1 or 0, with a nested object, with a brace in a string; an object
\* with neither result nor error, with both, without jsonrpc, with two
\* ids; an object that is not JSON.
Objects ==
    {<<T("{"), T("ver"), RespId(v), T("res"), T("}")>> : v \in {0, 1}}
    \cup {<<T("{"), T("ver"), RespId(1), T("err"), T("}")>>,
          <<T("{"), T("ver"), RespId(1), T("res"), T("key"), T("{"), T("ver"), T("}"), T("}")>>,
          <<T("{"), T("ver"), RespId(1), T("res"), T("key"), T("q"), T("}"), T("q"), T("}")>>,
          <<T("{"), T("ver"), RespId(1), T("}")>>,
          <<T("{"), T("ver"), RespId(1), T("res"), T("err"), T("}")>>,
          <<T("{"), RespId(1), T("res"), T("}")>>,
          <<T("{"), T("ver"), RespId(1), RespId(1), T("res"), T("}")>>,
          <<T("{"), T("x"), T("}")>>}

\* What precedes and what follows the object on the child's output; what
\* follows may be a second Response, written for a second request.
Before == {<<>>, <<T("x")>>, <<T("}")>>, <<T("q")>>}
Second == <<T("{"), T("ver"), IdTok(1, 2, FALSE), T("err"), T("}")>>
After == {<<>>, <<T("x")>>, <<T("{"), T("ver")>>, Second}

\* The text with a newline after each of its positions in cuts.
RECURSIVE CutFrom(_, _, _)
CutFrom(text, cuts, i) ==
    IF i > Len(text) THEN <<>>
    ELSE <<text[i]>> \o (IF i \in cuts THEN <<NL>> ELSE <<>>) \o CutFrom(text, cuts, i + 1)

Cuts(text) == {cuts \in SUBSET (1..(Len(text) - 1)) : Cardinality(cuts) <= MaxCuts}

\* The child's output: its last line is ended or not yet.
Outputs ==
    UNION {{pre \o CutFrom(obj, cuts, 1) \o post \o end :
               pre \in Before, cuts \in Cuts(obj), post \in After, end \in {<<>>, <<NL>>}} :
           obj \in Objects}

InitFrame ==
    /\ mainPc = "serving"
    /\ pc = [c \in Callers |-> IF c = Owner THEN "recv" ELSE "idle"]
    /\ call = [c \in Callers |->
                  IF c = Owner
                  THEN [NoCall EXCEPT !.op = "send", !.id = 1, !.no = 1, !.ran = TRUE,
                                      !.g0 = 1, !.pushed = TRUE]
                  ELSE NoCall]
    /\ holder = Owner
    /\ waiters = <<>>
    /\ process = 1 /\ stdin_tx = 1 /\ response_rx = 1
    /\ ngen = 1
    /\ procAlive = [g \in Gens |-> g = 1]
    /\ writerAlive = [g \in Gens |-> g = 1]
    /\ readerAlive = [g \in Gens |-> g = 1]
    /\ diagAlive = [g \in Gens |-> g = 1]
    /\ greeted = [g \in Gens |-> g = 1]
    /\ stdin_chan = [g \in Gens |-> <<>>]
    /\ stdin_pipe = [g \in Gens |-> <<>>]
    /\ \E text \in Outputs : stdout = [g \in Gens |-> IF g = 1 THEN text ELSE <<>>]
    /\ buffer = [g \in Gens |-> <<>>]
    /\ resp_chan = [g \in Gens |-> <<>>]
    /\ ncalls = 1

NextFrame ==
    \/ ReaderLine(1)
    \/ ReaderEof(1)
    \/ ProcExit(1)
    \/ RecvMessage(Owner)
    \/ RecvDisconnected(Owner)
    \/ RecvTimeout(Owner)
    \/ Release(Owner)

SpecFrame == InitFrame /\ [][NextFrame]_vars

----
\* Properties.

Sending(c) == pc[c] \in InHandler /\ call[c].op = "send"
Returned(c, kind) == pc[c] = "done" /\ call[c].res.kind = kind
AllRequests(g) == stdin_pipe[g] \o stdin_chan[g]

\* C1: every handler (send_rpc, ping, health_check, restart_repl) runs from
\* its first to its last step with the mutex held by its caller, and at no
\* time are two callers inside a handler.
C1_OneHandlerAtATime ==
    /\ Cardinality({c \in Callers : pc[c] \in InHandler}) <= 1
    /\ \A c \in Callers : pc[c] \in InHandler => holder = c

\* A caller waits in recv_timeout while the other waits for the mutex.
C1_Witness ==
    \E c, d \in Callers : c # d /\ pc[c] = "recv" /\ pc[d] = "lock"

\* C2: the requests sent to a process reach it in the order in which their
\* calls took the mutex, and a request is sent on the writer channel, and so
\* written to the process, only when every call that took the mutex earlier
\* has computed its value.
C2_NoInterleaving ==
    \A g \in Gens :
        LET q == AllRequests(g) IN
        /\ \A i, k \in 1..Len(q) : i < k => q[i].no < q[k].no
        /\ \A i \in 1..Len(q) : \A c \in Callers :
               ~(pc[c] \in InHandler /\ call[c].no < q[i].no)

\* The requests of two calls lie side by side in a process's input.
C2_Witness ==
    \E g \in Gens : Len(stdin_pipe[g]) = 2 /\ \E c \in Callers : pc[c] = "recv"

\* C3 as claimed: a process never holds more than one request that it has
\* been sent and has not answered.
C3_OneOutstanding ==
    \A g \in Gens : Len(stdin_pipe[g]) <= 1

\* C4 as claimed: a Response returned by send_request was written by the
\* process in answer to the request of that call.
C4_AnswersOwnRequest ==
    \A c \in Callers :
        (Returned(c, "Ok") /\ call[c].op = "send") => call[c].res.n = call[c].no

\* C5: no message whose id is 0 is returned by send_request or queued on a
\* reader channel, and once the reader thread has framed a line its buffer
\* holds no complete object: what followed a ready message was extracted.
C5_ReadyNeverDelivered ==
    /\ \A c \in Callers :
           (Returned(c, "Ok") /\ call[c].op = "send") => call[c].res.id # 0
    /\ \A g \in Gens : \A i \in 1..Len(resp_chan[g]) : ~IsReady(resp_chan[g][i])
    /\ \A g \in Gens : ~extract_json(buffer[g]).some
    /\ \A g \in Gens : FirstBrace(buffer[g]) = 0

\* A response written on the line of the ready message has been returned,
\* and the reader has nothing left to read or to frame.
C5_Witness ==
    \E c \in Callers :
        /\ Returned(c, "Ok") /\ call[c].res.j
        /\ stdout[call[c].res.gen] = <<>>
        /\ FirstBrace(buffer[call[c].res.gen]) = 0

\* C6: once the request is on the writer channel the wait ends in one of
\* three ways.  A message is queued: it is taken and parsed (Ok or
\* InvalidJson).  None is queued and the channel is open: Timeout.  None is
\* queued and the channel is closed: ReceiveFailed.
C6_ThreeOutcomes ==
    [][\A c \in Callers :
          (pc[c] = "recv" /\ pc'[c] = "done") =>
              LET g == response_rx
                  kind == call'[c].res.kind
              IN  /\ call[c].pushed
                  /\ kind \in {"Ok", "InvalidJson", "Timeout", "ReceiveFailed"}
                  /\ resp_chan[g] # <<>> =>
                         /\ kind \in {"Ok", "InvalidJson"}
                         /\ resp_chan'[g] = Tail(resp_chan[g])
                  /\ (resp_chan[g] = <<>> /\ readerAlive[g]) => kind = "Timeout"
                  /\ (resp_chan[g] = <<>> /\ ~readerAlive[g]) => kind = "ReceiveFailed"
                  /\ resp_chan[g] = <<>> => resp_chan'[g] = <<>>]_vars

\* A wait has ended with ReceiveFailed.
C6_Witness ==
    \E c \in Callers : Returned(c, "ReceiveFailed") /\ call[c].pushed

\* C7 as claimed: when the process exits after the request was sent and no
\* answer to it exists, send_request returns ReceiveFailed.
C7_ExitGivesReceiveFailed ==
    \A c \in Callers :
        (pc[c] = "done" /\ call[c].pushed /\ call[c].lost) =>
            call[c].res.kind = "ReceiveFailed"

\* C8: a send_request that finds no running process calls Command::spawn
\* once, before its request is sent, and sends nothing when the spawn
\* fails; one that finds the process running spawns nothing.
C8_OneImplicitStart ==
    \A c \in Callers :
        Sending(c) =>
            /\ call[c].ran => (call[c].starts = 0 /\ ngen = call[c].g0)
            /\ ~call[c].ran =>
                   /\ call[c].starts = 1
                   /\ IF Returned(c, "StartFailed")
                      THEN ngen = call[c].g0 /\ ~call[c].pushed
                      ELSE ngen = call[c].g0 + 1 /\ process = ngen
            /\ call[c].pushed => (call[c].ran \/ ngen = call[c].g0 + 1)

\* A request was sent to a process that its own call had spawned.
C8_Witness ==
    \E c \in Callers :
        Sending(c) /\ ~call[c].ran /\ call[c].pushed /\ call[c].starts = 1

\* C9 as claimed: at most one process and one thread of each kind are alive.
C9_OneGenerationAlive ==
    /\ Cardinality({g \in Gens : procAlive[g]}) <= 1
    /\ Cardinality({g \in Gens : writerAlive[g]}) <= 1
    /\ Cardinality({g \in Gens : readerAlive[g]}) <= 1
    /\ Cardinality({g \in Gens : diagAlive[g]}) <= 1

\* C10: process, stdin_tx and response_rx are all None or all of the same
\* generation; a start that failed and an is_running that found the child
\* exited leave all three None.
C10_FieldsTogether ==
    /\ process = stdin_tx /\ process = response_rx
    /\ \A c \in Callers :
           (Returned(c, "StartFailed") \/ Returned(c, "stopped")) =>
               (process = 0 /\ stdin_tx = 0 /\ response_rx = 0)

\* health_check found the child of an earlier start exited.
C10_Witness ==
    \E c \in Callers : Returned(c, "stopped") /\ call[c].g0 > 0 /\ call[c].ran = FALSE
                       /\ process = 0

\* C11: stop returns Ok in every lifecycle state and leaves process,
\* stdin_tx and response_rx None; the child whose handle was held no longer
\* runs, no other child is touched and none is spawned; and a stop that
\* finds no handle (never started, already stopped) changes nothing.
C11_StopAlwaysCleans ==
    [][\A c \in Callers :
          (pc[c] = "lock" /\ pc'[c] # "lock" /\ call[c].op = "stop") =>
              /\ pc'[c] = "done" /\ call'[c].res.kind = "Ok"
              /\ process' = 0 /\ stdin_tx' = 0 /\ response_rx' = 0
              /\ process # 0 => ~procAlive'[process]
              /\ \A g \in Gens \ {process} : procAlive'[g] = procAlive[g]
              /\ ngen' = ngen
              /\ process = 0 => UNCHANGED <<replVars, genVars, ioVars>>]_vars

\* A second stop has returned, after one that killed a running child.
C11_Witness ==
    \E c \in Callers :
        /\ Returned(c, "Ok") /\ call[c].op = "stop"
        /\ call[c].no = 3 /\ call[c].g0 = 1 /\ ~call[c].ran
        /\ \A g \in Gens : ~procAlive[g] /\ ~writerAlive[g] /\ ~readerAlive[g]

C13_StartWhileRunningIsNoOp ==
    [][\A c \in Callers :
          (/\ pc[c] = "lock" /\ pc'[c] # "lock" /\ call[c].op = "start"
           /\ process # 0 /\ procAlive[process]) =>
              /\ pc'[c] = "done" /\ call'[c].res.kind = "Ok"
              /\ call'[c].starts = 0
              /\ UNCHANGED <<replVars, genVars, ioVars>>]_vars

\* start has returned Ok on a running child whose response channel holds
\* the late answer to an earlier request.
C13_Witness ==
    \E c \in Callers :
        /\ Returned(c, "Ok") /\ call[c].op = "start" /\ call[c].ran
        /\ call[c].starts = 0
        /\ process # 0 /\ resp_chan[process] # <<>>

\* C14: once the LeanRepl is dropped no child it spawned runs, and every
\* writer, reader and stderr thread it spawned eventually ends.
C14_TeardownLeavesNothing ==
    /\ [](mainPc = "dropped" => \A g \in Gens : ~procAlive[g])
    /\ (mainPc = "dropped") ~>
           (\A g \in Gens : ~writerAlive[g] /\ ~readerAlive[g] /\ ~diagAlive[g])

\* The LeanRepl was dropped with a child running: the threads of two
\* generations are still alive.
C14_Witness ==
    /\ mainPc = "dropped"
    /\ \A g \in Gens : writerAlive[g] /\ readerAlive[g] /\ diagAlive[g]

\* C15: health_check always returns, with "running" exactly when a handle
\* is held and its child has not exited when is_running polls it, and
\* "stopped" otherwise; it spawns nothing and kills nothing.
C15_HealthReflectsLiveness ==
    [][\A c \in Callers :
          (pc[c] = "lock" /\ pc'[c] # "lock" /\ call[c].op = "health") =>
              /\ pc'[c] = "done"
              /\ call'[c].res.kind \in {"running", "stopped"}
              /\ call'[c].res.kind = "running" <=> (process # 0 /\ procAlive[process])
              /\ ngen' = ngen /\ procAlive' = procAlive
              /\ call'[c].starts = 0]_vars

\* health_check has returned "running" on the child of a restart.
C15_Witness ==
    \E c \in Callers :
        Returned(c, "running") /\ call[c].op = "health" /\ process = 2 /\ procAlive[2]

\* C16: a child is spawned only by main's start, by a restart, or by a
\* send_request as it begins and finds no child running.  A send_request
\* that ends with SendFailed, ReceiveFailed, Timeout or InvalidJson, a
\* health_check and the exit of a child spawn nothing and kill nothing;
\* the failing send_request sends and writes nothing more, and one that
\* timed out leaves the three fields and the channels as they were.
C16_NoRecoveryOnItsOwn ==
    [][/\ ngen' # ngen =>
              \/ mainPc = "new"
              \/ \E c \in Callers :
                     /\ pc[c] = "lock" /\ pc'[c] # "lock"
                     /\ \/ call[c].op = "restart"
                        \/ call[c].op = "send" /\ ~(process # 0 /\ procAlive[process])
       /\ \A c \in Callers :
              (/\ pc[c] \in {"push", "recv"} /\ pc'[c] = "done"
               /\ call'[c].res.kind \in {"SendFailed", "ReceiveFailed", "Timeout", "InvalidJson"}) =>
                  /\ ngen' = ngen /\ procAlive' = procAlive
                  /\ stdin_chan' = stdin_chan /\ stdin_pipe' = stdin_pipe
                  /\ call'[c].res.kind = "Timeout" => UNCHANGED <<replVars, ioVars>>
       /\ \A c \in Callers :
              (pc[c] = "lock" /\ pc'[c] # "lock" /\ call[c].op = "health") =>
                  ngen' = ngen /\ procAlive' = procAlive
       /\ ((\E g \in Gens : procAlive[g] /\ ~procAlive'[g]) /\ UNCHANGED <<mainPc, callerVars>>) =>
              /\ ngen' = ngen
              /\ UNCHANGED <<replVars, writerAlive, readerAlive, diagAlive>>]_vars

\* A send_request has timed out: its child still runs and holds the request.
C16_Witness ==
    \E c \in Callers :
        /\ Returned(c, "Timeout")
        /\ process # 0 /\ procAlive[process] /\ stdin_pipe[process] # <<>>

\* A Response as the specification words it: a JSON object with balanced
\* braces and no brace inside a string, with jsonrpc, an id, and exactly
\* one of result and error.
NotNewline(t) == t.c # "nl"
Strip(text) == SelectSeq(text, NotNewline)
Depth(seg, n) ==
    Cardinality({i \in 1..n : seg[i].c = "{"}) - Cardinality({i \in 1..n : seg[i].c = "}"})
Balanced(seg) ==
    /\ seg # <<>> /\ seg[1].c = "{"
    /\ Depth(seg, Len(seg)) = 0
    /\ \A n \in 1..(Len(seg) - 1) : Depth(seg, n) > 0
WellFormedResponse(seg) ==
    /\ Balanced(seg)
    /\ \A i \in 1..Len(seg) : seg[i].c \notin {"q", "b", "x"}
    /\ IsJson(seg)
    /\ LET m == TopMembers(seg)
       IN  Count(m, "ver") = 1 /\ Count(m, "id") = 1 /\ Count(m, "res") + Count(m, "err") = 1

\* What the reader thread's buffer holds once it has pushed the next line.
Pushed(g) == buffer[g] \o NextLine(stdout[g]) \o <<NL>>

\* The reader thread of generation 1 frames a line.
Frames == readerAlive[1] /\ stdout'[1] # stdout[1]

IdNotZero(seg) == Last(TopMembers(seg), "id").v # 0

\* When the pushed buffer holds a Response (with id 0 too, or not), with no
\* opening brace before it and no closing brace after it, exactly that text
\* is sent on the response channel and the buffer keeps what followed it.
FramesResponse(zeroToo) ==
    LET b == Pushed(1) IN
    \A i \in 1..Len(b), k \in 1..Len(b) :
        (/\ i <= k /\ b[i].c = "{" /\ b[k].c = "}"
         /\ \A h \in 1..(i - 1) : b[h].c # "{"
         /\ \A h \in (k + 1)..Len(b) : b[h].c # "}"
         /\ WellFormedResponse(Strip(SubSeq(b, i, k)))
         /\ (zeroToo \/ IdNotZero(SubSeq(b, i, k)))) =>
            /\ resp_chan'[1] = Append(resp_chan[1], SubSeq(b, i, k))
            /\ buffer'[1] = SubSeq(b, k + 1, Len(b))

Incomplete(b) == FirstBrace(b) = 0 \/ ScanEnd(b, FirstBrace(b), 0, FALSE, FALSE) = 0

\* C18: on a buffer with no complete object extract_json returns None and
\* leaves the buffer as it is; so the reader thread, having pushed a line
\* that completes no object, sends nothing and keeps everything pushed.
C18_IncompleteLeavesBuffer ==
    [][Frames =>
          LET b == Pushed(1) IN
          Incomplete(b) =>
              /\ extract_json(b) = [some |-> FALSE, json |-> <<>>, rest |-> b]
              /\ resp_chan'[1] = resp_chan[1]
              /\ buffer'[1] = b]_vars

\* The buffer holds other characters and the first line of an object whose
\* other lines are still to be read.
C18_Witness ==
    /\ readerAlive[1] /\ stdout[1] # <<>>
    /\ Len(buffer[1]) >= 3
    /\ buffer[1][1].c = "x" /\ buffer[1][2].c = "{"
    /\ Incomplete(buffer[1])
    /\ resp_chan[1] = <<>>

\* C19 as claimed: send_request returns a Response only when the message
\* it received has exactly one of result and error.
C19_OkOnlyWithOneOfResultError ==
    [][\A c \in Callers :
          (pc[c] = "recv" /\ pc'[c] = "done" /\ call'[c].res.kind = "Ok") =>
              LET m == TopMembers(Head(resp_chan[response_rx]))
              IN  Count(m, "res") + Count(m, "err") = 1]_vars

\* C20 as claimed: a start that finds no child running and whose spawn
\* fails, or which is left without its writer, reader or stderr thread
\* because the handle was not captured, returns StartFailed.
C20_CaptureFailureFailsStart ==
    [][\A c \in Callers :
          (/\ pc[c] = "lock" /\ pc'[c] # "lock" /\ call[c].op = "start"
           /\ ~(process # 0 /\ procAlive[process])
           /\ \/ ngen' = ngen
              \/ ~writerAlive'[ngen'] \/ ~readerAlive'[ngen'] \/ ~diagAlive'[ngen']) =>
              pc'[c] = "done" /\ call'[c].res.kind = "StartFailed"]_vars

\* The writer thread of c's channel has ended on a failed write while c
\* waits: c's request, pushed when the thread ran, was dropped unwritten.
WriteFailed(c) == call[c].pushed /\ ~writerAlive[stdin_tx]

\* C21 as claimed: a send_request whose request the writer thread failed to
\* write ends with Timeout or ReceiveFailed; send_request returns SendFailed
\* exactly when the writer thread has ended before the request is pushed,
\* and then it does not wait on the response channel.
C21_WriteFailureSurfacesLater ==
    [][\A c \in Callers :
          /\ (pc[c] = "recv" /\ pc'[c] = "done" /\ WriteFailed(c)) =>
                 call'[c].res.kind \in {"Timeout", "ReceiveFailed"}
          /\ (pc[c] = "push" /\ pc'[c] # "push") =>
                 /\ (pc'[c] = "done" /\ call'[c].res.kind = "SendFailed")
                        <=> ~writerAlive[stdin_tx]
                 /\ ~writerAlive[stdin_tx] => resp_chan' = resp_chan
          /\ (pc[c] = "recv" /\ pc'[c] = "done") => call'[c].res.kind # "SendFailed"]_vars

\* The generation whose child a send_request talks to: the one that ran
\* when it took the mutex, or the one it spawned.
OwnGen(c) == IF call[c].ran THEN call[c].g0 ELSE call[c].g0 + 1

\* s is t with text added at its end.
Extends(s, t) == Len(s) >= Len(t) /\ SubSeq(s, 1, Len(t)) = t

\* C22: a Response returned by send_request was taken from the response
\* channel of the child that call talks to, the last one spawned.  That
\* channel, its reader's buffer and its pipe are empty when the child is
\* spawned; text enters a pipe only from the running child of the same
\* generation, a buffer only from that pipe, and a channel only from what
\* extract_json frames in that buffer: nothing written by an earlier child,
\* queued, buffered or still to be framed, reaches a later call.
C22_NoDataAcrossGenerations ==
    [][/\ \A c \in Callers :
              (pc[c] = "recv" /\ pc'[c] = "done" /\ call'[c].res.kind = "Ok") =>
                  /\ call'[c].res.gen = OwnGen(c)
                  /\ OwnGen(c) = ngen /\ process = ngen
                  /\ resp_chan[ngen] # <<>>
                  /\ resp_chan'[ngen] = Tail(resp_chan[ngen])
       /\ ngen' # ngen =>
              /\ resp_chan'[ngen'] = <<>> /\ buffer'[ngen'] = <<>> /\ stdout'[ngen'] = <<>>
              /\ response_rx' = ngen'
       /\ \A g \in Gens :
              /\ stdout'[g] # stdout[g] =>
                     \/ stdout'[g] \in {<<>>, AfterLine(stdout[g])}
                     \/ procAlive[g] /\ Extends(stdout'[g], stdout[g])
              /\ buffer'[g] # buffer[g] =>
                     buffer'[g] \in {<<>>, ExtractAll(Pushed(g)).rest}
              /\ resp_chan'[g] # resp_chan[g] =>
                     \/ resp_chan'[g] = <<>>
                     \/ resp_chan[g] # <<>> /\ resp_chan'[g] = Tail(resp_chan[g])
                     \/ resp_chan'[g] = resp_chan[g] \o ExtractAll(Pushed(g)).out]_vars

\* A send_request that spawned the second child has returned the answer to
\* its own request while the reader thread of the first child still runs.
C22_Witness ==
    \E c \in Callers :
        /\ Returned(c, "Ok") /\ call[c].op = "send" /\ ~call[c].ran
        /\ call[c].res.gen = 2 /\ call[c].res.n = call[c].no
        /\ readerAlive[1] /\ ~procAlive[1]

\* The text holds a complete well-formed Response whose id is not 0.
HoldsObject(b) ==
    \E i \in 1..Len(b), k \in 1..Len(b) :
        /\ i <= k /\ b[i].c = "{" /\ b[k].c = "}"
        /\ WellFormedResponse(Strip(SubSeq(b, i, k)))
        /\ IdNotZero(SubSeq(b, i, k))

\* The objects on a channel are in the order in which they were written.
InOrder(q) ==
    \A i, k \in 1..Len(q) :
        i < k => Last(TopMembers(q[i]), "id").n <= Last(TopMembers(q[k]), "id").n

\* C23 as claimed: once the reader thread has read every line the child
\* wrote, no complete well-formed object other than a ready message is left
\* in its buffer, where only a further line could release it: each was sent
\* on the response channel, in the order written, whatever preceded it on
\* its line.
C23_ForwardsEveryObject ==
    /\ (readerAlive[1] /\ stdout[1] = <<>>) => ~HoldsObject(buffer[1])
    /\ InOrder(resp_chan[1])

\* Some caller is in a call or waits for the mutex.
InCall == \E c \in Callers : pc[c] # "idle"

\* C24: every caller waiting for the mutex gets it, and every handler that
\* holds it (send_rpc, ping, health_check, restart_repl) returns and drops
\* it, whatever the child does: answer, answer late, never answer, exit at
\* any point; and while a call is in progress some step of the program is
\* possible.
C24_EveryCallReturns ==
    /\ [](InCall => CanProgress)
    /\ \A c \in Callers : (pc[c] = "lock") ~> (holder = c)
    /\ \A c \in Callers : (pc[c] \in InHandler) ~> (pc[c] = "idle" /\ holder # c)

\* The second of two send_request calls has timed out like the first: the
\* child holds both requests and has answered neither.
C24_Witness ==
    \E c \in Callers :
        /\ Returned(c, "Timeout") /\ call[c].no = 2
        /\ process # 0 /\ procAlive[process] /\ Len(stdin_pipe[process]) = 2

\* The running child of c's channel has read c's request and written its
\* answer: the request was pushed and is no longer queued or unanswered.
Answered(c) ==
    /\ call[c].pushed /\ procAlive[response_rx]
    /\ \A i \in 1..Len(AllRequests(response_rx)) : AllRequests(response_rx)[i].no # call[c].no

\* C25 as claimed: whatever id the request carries, 0 included, a
\* send_request that is the first to use the bridge (no earlier message can
\* be pending) and whose running child has written the answer to its
\* request when recv_timeout returns, returns that answer.
C25_AnyIdIsAnswered ==
    [][\A c \in Callers :
          (pc[c] = "recv" /\ pc'[c] = "done" /\ call[c].no = 1 /\ Answered(c)) =>
              /\ call'[c].res.kind = "Ok"
              /\ call'[c].res.id = call[c].id
              /\ call'[c].res.n = call[c].no]_vars

====
